---- MODULE Spec2Model ----
(***************************************************************************)
(* A model of src/parser.rs: the Lexer (a cursor over the UTF-8 bytes of   *)
(* the input) and the recursive-descent Parser of INSERT statements.       *)
(*                                                                         *)
(* A character is a one-element string; a character that takes more than   *)
(* one byte in UTF-8 has a longer name ("nbsp", "euro", ...) and is        *)
(* followed in the input by Cont slots, one per extra byte, so that the    *)
(* input is indexed by byte offset exactly as the &str of the source.      *)
(***************************************************************************)
EXTENDS Integers, Sequences, FiniteSets, TLC

VARIABLES
    input,          \* Lexer.input: the text, one slot per byte
    lexer,          \* Parser.lexer: [position, read_position, ch]
    current_token,  \* Parser.current_token
    pc,             \* the statement of parse()/parse_insert() to run next
    table,          \* parse_insert: let table
    columns,        \* parse_insert: let mut columns
    values,         \* parse_insert: let mut values
    result,         \* what parse() returned
    ret,            \* what the last direct Lexer::next_token call returned
    calls,          \* number of Lexer::next_token calls made so far
    stmt            \* the statement the input text was rendered from

vars == <<input, lexer, current_token, pc, table, columns, values,
          result, ret, calls, stmt>>

----------------------------------------------------------------------------
(* Characters *)

\* The second and later bytes of a multi-byte character.
Cont == "cont"
\* Option<char>::None, the "exhausted" sentinel of Lexer.ch.
NoChar == "none"

LowerLetters ==
    <<"a","b","c","d","e","f","g","h","i","j","k","l","m",
      "n","o","p","q","r","s","t","u","v","w","x","y","z">>
UpperLetters ==
    <<"A","B","C","D","E","F","G","H","I","J","K","L","M",
      "N","O","P","Q","R","S","T","U","V","W","X","Y","Z">>
Digits == <<"0","1","2","3","4","5","6","7","8","9">>

Range(s) == {s[i] : i \in DOMAIN s}

IndexOf(s, c) == CHOOSE i \in DOMAIN s : s[i] = c

\* char::len_utf8
LenUtf8(c) ==
    CASE c \in {"nbsp", "e_acute", "dotless_i", "long_s"} -> 2
      [] c = "euro" -> 3
      [] OTHER -> 1

\* char::is_whitespace (Unicode White_Space)
IsWhitespace(c) == c \in {" ", "\t", "\n", "\r", "nbsp"}

\* char::is_ascii_digit
IsAsciiDigit(c) == c \in Range(Digits)

\* char::is_alphabetic (Unicode Alphabetic)
IsAlphabetic(c) ==
    c \in Range(LowerLetters) \cup Range(UpperLetters)
          \cup {"e_acute", "dotless_i", "long_s"}

\* char::is_alphanumeric
IsAlphanumeric(c) == IsAlphabetic(c) \/ IsAsciiDigit(c)

\* char::to_uppercase: the upper-case mapping of one character (Unicode:
\* U+0131 maps to 'I', U+017F to 'S', U+00E9 to U+00C9).
CharToUppercase(c) ==
    CASE c \in Range(LowerLetters) -> UpperLetters[IndexOf(LowerLetters, c)]
      [] c = "dotless_i" -> "I"
      [] c = "long_s" -> "S"
      [] c = "e_acute" -> "E_acute"
      [] OTHER -> c

\* char::to_ascii_lowercase, as eq_ignore_ascii_case applies it
ToAsciiLowercase(c) ==
    IF c \in Range(UpperLetters) THEN LowerLetters[IndexOf(UpperLetters, c)]
    ELSE c

\* str::to_uppercase
ToUppercase(s) == [i \in DOMAIN s |-> CharToUppercase(s[i])]

\* str::eq_ignore_ascii_case
EqIgnoreAsciiCase(a, b) ==
    /\ Len(a) = Len(b)
    /\ \A i \in DOMAIN a : ToAsciiLowercase(a[i]) = ToAsciiLowercase(b[i])

\* The bytes of one character: the character, then its continuation bytes.
Chr(c) == <<c>> \o [i \in 1..(LenUtf8(c) - 1) |-> Cont]

\* The bytes of a string of characters.
RECURSIVE Utf8(_)
Utf8(s) == IF s = <<>> THEN <<>> ELSE Chr(Head(s)) \o Utf8(Tail(s))

\* The characters of a byte string (str::chars): the continuation bytes dropped.
Chars(b) == SelectSeq(b, LAMBDA x : x # Cont)

----------------------------------------------------------------------------
(* Tokens *)

Tok(tag, val) == [tag |-> tag, val |-> val]

\* Option<Token>::None
NoToken == Tok("None", <<>>)

KwINSERT == <<"I","N","S","E","R","T">>
KwINTO == <<"I","N","T","O">>
KwVALUES == <<"V","A","L","U","E","S">>
KwDATE == <<"D","A","T","E">>
KwTIME == <<"T","I","M","E">>
KwTIMESTAMP == <<"T","I","M","E","S","T","A","M","P">>
KwINTERVAL == <<"I","N","T","E","R","V","A","L">>
KwNULL == <<"N","U","L","L">>
KwTRUE == <<"T","R","U","E">>
KwFALSE == <<"F","A","L","S","E">>

LeftParen == Tok("LeftParen", <<>>)
RightParen == Tok("RightParen", <<>>)
Comma == Tok("Comma", <<>>)
SemiColon == Tok("SemiColon", <<>>)

----------------------------------------------------------------------------
(* Lexer *)

\* read_char that steps over the end of the input as over a character.
ReadCharPastEnd(inp, L) ==
    LET c == IF L.read_position >= Len(inp) THEN NoChar
             ELSE inp[L.read_position + 1]
    IN [position |-> L.read_position,
        read_position |-> L.read_position + LenUtf8(c),
        ch |-> c]

\* Lexer::read_char
ReadChar(inp, L) ==
    LET c == IF L.read_position >= Len(inp) THEN NoChar
             ELSE inp[L.read_position + 1]
    IN [position |-> L.read_position,
        read_position |-> IF c # NoChar THEN L.read_position + LenUtf8(c)
                          ELSE L.read_position,
        ch |-> c]

\* Lexer::new
LexerNew(inp) == ReadChar(inp, [position |-> 0, read_position |-> 0, ch |-> NoChar])

\* Lexer::skip_whitespace
RECURSIVE SkipWhitespace(_, _)
SkipWhitespace(inp, L) ==
    IF L.ch # NoChar /\ IsWhitespace(L.ch)
    THEN SkipWhitespace(inp, ReadChar(inp, L))
    ELSE L

\* The loop of read_string_literal leaving white space out of the literal.
RECURSIVE StringLoopNoSpace(_, _, _)
StringLoopNoSpace(inp, L, literal) ==
    IF L.ch # NoChar /\ L.ch # "'"
    THEN StringLoopNoSpace(inp, ReadChar(inp, L),
                           IF IsWhitespace(L.ch) THEN literal
                           ELSE Append(literal, L.ch))
    ELSE [lex |-> L, literal |-> literal]

\* The while loop of read_string_literal: the characters up to the next quote.
RECURSIVE StringLoop(_, _, _)
StringLoop(inp, L, literal) ==
    IF L.ch # NoChar /\ L.ch # "'"
    THEN StringLoop(inp, ReadChar(inp, L), Append(literal, L.ch))
    ELSE [lex |-> L, literal |-> literal]

\* read_string_literal that leaves the closing quote unread.
ReadStringLiteralNoClose(inp, L) ==
    LET r == StringLoop(inp, ReadChar(inp, L), <<>>)
    IN [lex |-> r.lex, literal |-> r.literal]

\* Lexer::read_string_literal
ReadStringLiteral(inp, L) ==
    LET r == StringLoop(inp, ReadChar(inp, L), <<>>)
    IN [lex |-> ReadChar(inp, r.lex), literal |-> r.literal]

\* The loop of read_number stopping before a second '.'.
RECURSIVE NumberLoopOneDot(_, _, _)
NumberLoopOneDot(inp, L, number) ==
    IF /\ L.ch # NoChar
       /\ \/ IsAsciiDigit(L.ch)
          \/ (L.ch = "." /\ \A i \in DOMAIN number : number[i] # ".")
    THEN NumberLoopOneDot(inp, ReadChar(inp, L), Append(number, L.ch))
    ELSE [lex |-> L, number |-> number]

\* The while loop of read_number: the maximal run of ASCII digits and '.'.
RECURSIVE NumberLoop(_, _, _)
NumberLoop(inp, L, number) ==
    IF L.ch # NoChar /\ (IsAsciiDigit(L.ch) \/ L.ch = ".")
    THEN NumberLoop(inp, ReadChar(inp, L), Append(number, L.ch))
    ELSE [lex |-> L, number |-> number]

\* A digit string without its leading zeros ("0" for zero).
RECURSIVE StripLeadingZeros(_)
StripLeadingZeros(d) ==
    IF Len(d) > 1 /\ Head(d) = "0" THEN StripLeadingZeros(Tail(d)) ELSE d

\* A digit string without its trailing zeros.
RECURSIVE StripTrailingZeros(_)
StripTrailingZeros(d) ==
    IF d # <<>> /\ d[Len(d)] = "0"
    THEN StripTrailingZeros(SubSeq(d, 1, Len(d) - 1))
    ELSE d

\* i64::MAX, 9223372036854775807, as its decimal digits.
I64Max ==
    <<"9","2","2","3","3","7","2","0","3","6","8","5","4","7","7","5","8","0","7">>

\* a <= b for two digit strings of the same length.
RECURSIVE DigitsLeq(_, _)
DigitsLeq(a, b) ==
    IF a = <<>> THEN TRUE
    ELSE LET x == IndexOf(Digits, Head(a))
             y == IndexOf(Digits, Head(b))
         IN IF x # y THEN x < y ELSE DigitsLeq(Tail(a), Tail(b))

\* Whether a run of digits is a value of i64.
FitsI64(d) ==
    LET n == StripLeadingZeros(d)
    IN Len(n) < Len(I64Max) \/ (Len(n) = Len(I64Max) /\ DigitsLeq(n, I64Max))

\* str::parse::<i64> of a non-empty run of digits: the value as its decimal
\* digits without leading zeros, or "Err" on overflow.
ParseI64(number) ==
    IF FitsI64(number) THEN StripLeadingZeros(number) ELSE <<"Err">>

\* str::parse::<f64> of a run of digits and '.' that starts with a digit: Ok
\* exactly when the run holds one '.'; the value as its decimal expansion
\* without leading and trailing zeros.
ParseF64(number) ==
    LET dots == {i \in DOMAIN number : number[i] = "."}
    IN IF Cardinality(dots) # 1 THEN <<"Err">>
       ELSE LET p == CHOOSE i \in dots : TRUE
            IN StripLeadingZeros(SubSeq(number, 1, p - 1)) \o <<".">>
               \o StripTrailingZeros(SubSeq(number, p + 1, Len(number)))

\* Lexer::read_number
ReadNumber(inp, L) ==
    LET r == NumberLoop(inp, L, <<>>)
    IN [lex |-> r.lex,
        tok |-> IF "." \in Range(r.number)
                THEN IF ParseF64(r.number) # <<"Err">>
                     THEN Tok("Float", ParseF64(r.number))
                     ELSE Tok("Float", <<"0", ".">>)
                ELSE IF ParseI64(r.number) # <<"Err">>
                     THEN Tok("Integer", ParseI64(r.number))
                     ELSE Tok("Integer", <<"0">>)]

\* Lexer::is_identifier_start
IsIdentifierStart(c) == IsAlphabetic(c) \/ c = "_"

\* Lexer::is_identifier_part
IsIdentifierPart(c) == IsAlphanumeric(c) \/ c = "_"

\* is_keyword that compares the word as written.
IsKeywordExact(ident) ==
    ident \in {KwINSERT, KwINTO, KwVALUES, KwDATE, KwTIME,
               KwTIMESTAMP, KwINTERVAL, KwNULL, KwTRUE, KwFALSE}

\* Lexer::is_keyword
IsKeyword(ident) ==
    ToUppercase(ident) \in {KwINSERT, KwINTO, KwVALUES, KwDATE, KwTIME,
                            KwTIMESTAMP, KwINTERVAL, KwNULL, KwTRUE, KwFALSE}

\* The while loop of read_identifier_or_keyword.
RECURSIVE IdentLoop(_, _, _)
IdentLoop(inp, L, ident) ==
    IF L.ch # NoChar /\ IsIdentifierPart(L.ch)
    THEN IdentLoop(inp, ReadChar(inp, L), Append(ident, L.ch))
    ELSE [lex |-> L, ident |-> ident]

\* The match of read_identifier_or_keyword on a word is_keyword accepts.
KeywordToken(ident) ==
    LET up == ToUppercase(ident)
    IN CASE up = KwNULL -> Tok("Null", <<>>)
         [] up = KwTRUE -> Tok("Boolean", <<"true">>)
         [] up = KwFALSE -> Tok("Boolean", <<"false">>)
         [] OTHER -> Tok("Keyword", up)

\* Lexer::read_identifier_or_keyword
ReadIdentifierOrKeyword(inp, L) ==
    LET r == IdentLoop(inp, L, <<>>)
    IN [lex |-> r.lex,
        tok |-> IF IsKeyword(r.ident) THEN KeywordToken(r.ident)
                ELSE Tok("Identifier", r.ident)]

\* The end of the input reported as a ';' token.
EndOfInputAsToken(L) == [lex |-> L, tok |-> SemiColon]

\* The arm of next_token for the exhausted input.
EndOfInput(L) == [lex |-> L, tok |-> NoToken]

\* The arm for a character that starts no token leaving the lexer on it.
UnknownCharStuck(inp, L) == [lex |-> L, tok |-> NoToken]

\* The arm of next_token for a character that starts no token.
UnknownChar(inp, L) == [lex |-> ReadChar(inp, L), tok |-> NoToken]

\* Lexer::next_token
NextToken(inp, L0) ==
    LET L == SkipWhitespace(inp, L0)
    IN CASE L.ch = "(" -> [lex |-> ReadChar(inp, L), tok |-> LeftParen]
         [] L.ch = ")" -> [lex |-> ReadChar(inp, L), tok |-> RightParen]
         [] L.ch = "," -> [lex |-> ReadChar(inp, L), tok |-> Comma]
         [] L.ch = ";" -> [lex |-> ReadChar(inp, L), tok |-> SemiColon]
         [] L.ch = "'" ->
              LET r == ReadStringLiteral(inp, L)
              IN [lex |-> r.lex, tok |-> Tok("StringLiteral", r.literal)]
         [] L.ch # NoChar /\ IsAsciiDigit(L.ch) -> ReadNumber(inp, L)
         [] L.ch # NoChar /\ IsIdentifierStart(L.ch) -> ReadIdentifierOrKeyword(inp, L)
         [] L.ch = NoChar -> EndOfInput(L)
         [] OTHER -> UnknownChar(inp, L)

----------------------------------------------------------------------------
(* Parser *)

\* ast::Value
Val(tag, val) == [tag |-> tag, val |-> val]

\* Result<Query, String>: nothing returned yet, Ok(Query::Insert(..)), Err(msg)
NoResult == [kind |-> "None", msg |-> "", table |-> <<>>, columns |-> <<>>, values |-> <<>>]
Ok(t, c, v) == [kind |-> "Ok", msg |-> "", table |-> t, columns |-> c, values |-> v]
Err(msg) == [kind |-> "Err", msg |-> msg, table |-> <<>>, columns |-> <<>>, values |-> <<>>]

\* Parser::new: the parser before parse() is called, as the record of the
\* parser's fields, the locals of parse_insert and the place in its code.
ParserNew(inp) ==
    LET r == NextToken(inp, LexerNew(inp))
    IN [lexer |-> r.lex, current_token |-> r.tok, calls |-> 1, pc |-> "parse",
        table |-> <<>>, columns |-> <<>>, values |-> <<>>, result |-> NoResult]

\* next_token that asks the lexer again after a character that starts no
\* token, until a token or the end of the input.
RECURSIVE ParserNextTokenRetry(_, _)
ParserNextTokenRetry(inp, S) ==
    LET r == NextToken(inp, S.lexer)
        T == [S EXCEPT !.lexer = r.lex, !.current_token = r.tok]
    IN IF r.tok = NoToken /\ r.lex.ch # NoChar
       THEN ParserNextTokenRetry(inp, T)
       ELSE [T EXCEPT !.calls = @ + 1]

\* Parser::next_token
ParserNextToken(inp, S) ==
    LET r == NextToken(inp, S.lexer)
    IN [S EXCEPT !.lexer = r.lex, !.current_token = r.tok, !.calls = @ + 1]

\* match_token that advances whether or not the token matched.
MatchTokenAlwaysAdvances(inp, S, token) ==
    [ok |-> S.current_token # NoToken /\ S.current_token = token,
     S |-> ParserNextToken(inp, S)]

\* Parser::match_token: whether it matched, and the parser after it.
MatchToken(inp, S, token) ==
    IF S.current_token # NoToken /\ S.current_token = token
    THEN [ok |-> TRUE, S |-> ParserNextToken(inp, S)]
    ELSE [ok |-> FALSE, S |-> S]

\* Parser::match_keyword
MatchKeyword(inp, S, keyword) ==
    IF S.current_token.tag = "Keyword"
       /\ EqIgnoreAsciiCase(S.current_token.val, keyword)
    THEN [ok |-> TRUE, S |-> ParserNextToken(inp, S)]
    ELSE [ok |-> FALSE, S |-> S]

\* return Err(msg)
Fail(S, msg) == [S EXCEPT !.pc = "done", !.result = Err(msg)]

\* fall through to the statement at p
Goto(S, p) == [S EXCEPT !.pc = p]

\* if !self.match_keyword(keyword) { return Err(msg) }
ExpectKeyword(inp, S, keyword, msg, p) ==
    LET m == MatchKeyword(inp, S, keyword)
    IN IF m.ok THEN Goto(m.S, p) ELSE Fail(m.S, msg)

\* if !self.match_token(token) { return Err(msg) }
ExpectToken(inp, S, token, msg, p) ==
    LET m == MatchToken(inp, S, token)
    IN IF m.ok THEN Goto(m.S, p) ELSE Fail(m.S, msg)

\* parse that hands every keyword to parse_insert.
ParseAnyKeyword(inp, S) ==
    IF S.current_token.tag = "Keyword"
    THEN Goto(S, "insert")
    ELSE Fail(S, "Unsupported query type.")

\* Parser::parse: the dispatch on the current token.
Parse(inp, S) ==
    IF S.current_token.tag = "Keyword"
       /\ EqIgnoreAsciiCase(S.current_token.val, KwINSERT)
    THEN Goto(S, "insert")
    ELSE Fail(S, "Unsupported query type.")

\* parse_insert: consume 'INSERT'
ConsumeInsert(inp, S) ==
    ExpectKeyword(inp, S, KwINSERT, "Expected 'INSERT' keyword.", "into")

\* parse_insert: consume 'INTO'
ConsumeInto(inp, S) ==
    ExpectKeyword(inp, S, KwINTO, "Expected 'INTO' keyword.", "table")

\* parse_insert: parse table name
ParseTableName(inp, S) ==
    IF S.current_token.tag = "Identifier"
    THEN Goto([ParserNextToken(inp, S) EXCEPT !.table = S.current_token.val],
              "lparen1")
    ELSE Fail(S, "Expected table name.")

\* parse_insert: consume '(' before the column list
ConsumeColumnsLeftParen(inp, S) ==
    ExpectToken(inp, S, LeftParen, "Expected '('.", "column")

\* The column loop letting an empty list through.
ParseColumnNameOrEmpty(inp, S) ==
    IF S.current_token.tag = "Identifier"
    THEN Goto([ParserNextToken(inp, S) EXCEPT
                  !.columns = Append(@, S.current_token.val)],
              "column_sep")
    ELSE IF S.columns = <<>> /\ S.current_token = RightParen
    THEN Goto(S, "rparen1")
    ELSE Fail(S, "Expected column name.")

\* The column name recorded with the lookahead left on it.
ParseColumnNameNoAdvance(inp, S) ==
    IF S.current_token.tag = "Identifier"
    THEN Goto([S EXCEPT !.columns = Append(@, S.current_token.val)], "column_sep")
    ELSE Fail(S, "Expected column name.")

\* parse_insert: the first half of the column loop, one column name
ParseColumnName(inp, S) ==
    IF S.current_token.tag = "Identifier"
    THEN Goto([ParserNextToken(inp, S) EXCEPT
                  !.columns = Append(@, S.current_token.val)],
              "column_sep")
    ELSE Fail(S, "Expected column name.")

\* The column loop leaving on a ',' that the ')' follows.
ColumnSeparatorTrailing(inp, S) ==
    LET m == MatchToken(inp, S, Comma)
    IN IF m.ok /\ m.S.current_token # RightParen
       THEN Goto(m.S, "column") ELSE Goto(m.S, "rparen1")

\* parse_insert: the second half of the column loop, continue on ','
ColumnSeparator(inp, S) ==
    LET m == MatchToken(inp, S, Comma)
    IN IF m.ok THEN Goto(m.S, "column") ELSE Goto(m.S, "rparen1")

\* The ')' after the column list taken as optional.
ConsumeColumnsRightParenOptional(inp, S) ==
    Goto(MatchToken(inp, S, RightParen).S, "values_kw")

\* parse_insert: consume ')' after the column list
ConsumeColumnsRightParen(inp, S) ==
    ExpectToken(inp, S, RightParen, "Expected ')'.", "values_kw")

\* parse_insert: consume 'VALUES'
ConsumeValues(inp, S) ==
    ExpectKeyword(inp, S, KwVALUES, "Expected 'VALUES' keyword.", "lparen2")

\* parse_insert: consume '(' before the value list
ConsumeValuesLeftParen(inp, S) ==
    ExpectToken(inp, S, LeftParen, "Expected '('.", "value")

\* Parser::consume_whitespace_and_comments
RECURSIVE ConsumeWhitespaceAndComments(_, _)
ConsumeWhitespaceAndComments(inp, S) ==
    IF S.current_token.tag = "Whitespace"
    THEN ConsumeWhitespaceAndComments(inp, ParserNextToken(inp, S))
    ELSE S

\* values.push(value), then on to the separator
PushValue(S, value) ==
    Goto([S EXCEPT !.values = Append(@, value)], "value_sep")

\* A typed literal failing with the generic message.
TypedLiteralGeneric(inp, S, vtag, msg) ==
    LET S1 == ParserNextToken(inp, S)
    IN IF S1.current_token.tag = "StringLiteral"
       THEN PushValue(ParserNextToken(inp, S1), Val(vtag, S1.current_token.val))
       ELSE Fail(S1, "Failed to parse value.")

\* An arm of the value match for DATE, TIME, TIMESTAMP or INTERVAL: the
\* keyword, then a string literal.
TypedLiteral(inp, S, vtag, msg) ==
    LET S1 == ParserNextToken(inp, S)
    IN IF S1.current_token.tag = "StringLiteral"
       THEN PushValue(ParserNextToken(inp, S1), Val(vtag, S1.current_token.val))
       ELSE Fail(S1, msg)

\* Whether the current token is the keyword kw (an arm's guard).
IsKw(S, kw) ==
    S.current_token.tag = "Keyword" /\ EqIgnoreAsciiCase(S.current_token.val, kw)

\* parse_insert: the first half of the value loop, the match on the current
\* token that makes one value, and the push.
ParseValue(inp, S0) ==
    LET S == ConsumeWhitespaceAndComments(inp, S0)
        t == S.current_token
    IN CASE t.tag = "Integer" -> PushValue(ParserNextToken(inp, S), Val("Integer", t.val))
         [] t.tag = "Float" -> PushValue(ParserNextToken(inp, S), Val("Float", t.val))
         [] t.tag = "StringLiteral" -> PushValue(ParserNextToken(inp, S), Val("Text", t.val))
         [] t.tag = "Null" -> PushValue(ParserNextToken(inp, S), Val("Null", <<>>))
         [] t.tag = "Boolean" -> PushValue(ParserNextToken(inp, S), Val("Boolean", t.val))
         [] IsKw(S, KwDATE) ->
              TypedLiteral(inp, S, "Date", "Failed to parse 'DATE' literal.")
         [] IsKw(S, KwTIME) ->
              TypedLiteral(inp, S, "Time", "Failed to parse 'TIME' literal.")
         [] IsKw(S, KwTIMESTAMP) ->
              TypedLiteral(inp, S, "Timestamp", "Failed to parse 'TIMESTAMP' literal.")
         [] IsKw(S, KwINTERVAL) ->
              TypedLiteral(inp, S, "Interval", "Failed to parse 'INTERVAL' literal.")
         [] OTHER -> Fail(S, "Failed to parse value.")

\* parse_insert: the second half of the value loop, continue on ','
ValueSeparator(inp, S0) ==
    LET m == MatchToken(inp, ConsumeWhitespaceAndComments(inp, S0), Comma)
    IN IF m.ok THEN Goto(m.S, "value") ELSE Goto(m.S, "rparen2")

\* parse_insert: consume ')' after the value list
ConsumeValuesRightParen(inp, S) ==
    ExpectToken(inp, S, RightParen, "Expected ')'.", "semicolon")

\* The final ';' taken as required.
ConsumeSemiColonRequired(inp, S) ==
    LET m == MatchToken(inp, S, SemiColon)
    IN IF m.ok
       THEN [m.S EXCEPT !.pc = "done",
                        !.result = Ok(m.S.table, m.S.columns, m.S.values)]
       ELSE Fail(m.S, "Expected ';'.")

\* The Insert returned only when it has as many values as columns.
ConsumeSemiColonCounted(inp, S) ==
    LET m == MatchToken(inp, S, SemiColon)
    IN IF Len(m.S.columns) = Len(m.S.values)
       THEN [m.S EXCEPT !.pc = "done",
                        !.result = Ok(m.S.table, m.S.columns, m.S.values)]
       ELSE Fail(m.S, "Column count does not match value count.")

\* parse_insert: consume the optional ';' and return the Insert
ConsumeSemiColon(inp, S) ==
    LET m == MatchToken(inp, S, SemiColon)
    IN [m.S EXCEPT !.pc = "done",
                   !.result = Ok(m.S.table, m.S.columns, m.S.values)]

\* One statement of parse()/parse_insert(), by the place in the code.
Step(inp, S) ==
    CASE S.pc = "parse" -> Parse(inp, S)
      [] S.pc = "insert" -> ConsumeInsert(inp, S)
      [] S.pc = "into" -> ConsumeInto(inp, S)
      [] S.pc = "table" -> ParseTableName(inp, S)
      [] S.pc = "lparen1" -> ConsumeColumnsLeftParen(inp, S)
      [] S.pc = "column" -> ParseColumnName(inp, S)
      [] S.pc = "column_sep" -> ColumnSeparator(inp, S)
      [] S.pc = "rparen1" -> ConsumeColumnsRightParen(inp, S)
      [] S.pc = "values_kw" -> ConsumeValues(inp, S)
      [] S.pc = "lparen2" -> ConsumeValuesLeftParen(inp, S)
      [] S.pc = "value" -> ParseValue(inp, S)
      [] S.pc = "value_sep" -> ValueSeparator(inp, S)
      [] S.pc = "rparen2" -> ConsumeValuesRightParen(inp, S)
      [] S.pc = "semicolon" -> ConsumeSemiColon(inp, S)
      [] OTHER -> S

\* parse() from the state S to its return.
RECURSIVE Run(_, _)
Run(inp, S) == IF S.pc = "done" THEN S ELSE Run(inp, Step(inp, S))

\* Parser::new(inp) followed by parse(): what parse() returns.
ParseText(inp) == Run(inp, ParserNew(inp)).result

----------------------------------------------------------------------------
(* The inputs: statements and their text *)

MaxCols == 2
MaxVals == 2
MaxLexLen == 3
MaxCalls == 5

SeqsUpTo(S, n) == UNION {[1..k -> S] : k \in 1..n}

Keywords ==
    {KwINSERT, KwINTO, KwVALUES, KwDATE, KwTIME, KwTIMESTAMP, KwINTERVAL,
     KwNULL, KwTRUE, KwFALSE}

TypedKeywords == {KwDATE, KwTIME, KwTIMESTAMP, KwINTERVAL}

LP == <<"(">>
RP == <<")">>
CM == <<",">>
SC == <<";">>

\* A literal of the grammar: the words of its text and the value it denotes.
\* `value` is what the lexer's rules make of the text, `denotes` what the text
\* means as a number or string; they differ only for LitOverflow.
Lit(words, value) == [words |-> words, value |-> value, denotes |-> value]

LitInt == Lit(<<<<"4","2">>>>, Val("Integer", <<"4","2">>))
LitFloat == Lit(<<<<"3",".","1","4">>>>, Val("Float", <<"3",".","1","4">>))
LitText == Lit(<<<<"'","h","i","'">>>>, Val("Text", <<"h","i">>))
LitNull == Lit(<<KwNULL>>, Val("Null", <<>>))
LitTrue == Lit(<<KwTRUE>>, Val("Boolean", <<"true">>))
LitFalse == Lit(<<KwFALSE>>, Val("Boolean", <<"false">>))
LitDate ==
    Lit(<<KwDATE, <<"'","2","4","-","0","1","'">>>>,
        Val("Date", <<"2","4","-","0","1">>))
LitTime == Lit(<<KwTIME, <<"'","9",":","3","0","'">>>>, Val("Time", <<"9",":","3","0">>))
LitTimestamp == Lit(<<KwTIMESTAMP, <<"'","n","o","w","'">>>>, Val("Timestamp", <<"n","o","w">>))
LitInterval ==
    Lit(<<KwINTERVAL, <<"'","1"," ","d","'">>>>, Val("Interval", <<"1"," ","d">>))
LitEmptyText == Lit(<<<<"'","'">>>>, Val("Text", <<>>))
\* a string holding a keyword, punctuation, an unrecognized and a 3-byte character
LitOddText ==
    Lit(<<<<"'","N","U","L","L",",",")","#","euro","'">>>>,
        Val("Text", <<"N","U","L","L",",",")","#","euro">>))
LitZeros == Lit(<<<<"0","0","7">>>>, Val("Integer", <<"7">>))
LitDotEnd == Lit(<<<<"1","0",".">>>>, Val("Float", <<"1","0",".">>))
LitI64Max == Lit(<<I64Max>>, Val("Integer", I64Max))
LitOne == Lit(<<<<"1">>>>, Val("Integer", <<"1">>))
\* i64::MAX + 1: a digit run that is no i64
I64MaxPlus1 ==
    <<"9","2","2","3","3","7","2","0","3","6","8","5","4","7","7","5","8","0","8">>
LitOverflow ==
    [words |-> <<I64MaxPlus1>>, value |-> Val("Integer", <<"0">>),
     denotes |-> Val("Integer", I64MaxPlus1)]
\* 10^19, a run of twenty digits
TenPow19 ==
    <<"1","0","0","0","0","0","0","0","0","0","0","0","0","0","0","0","0","0","0","0">>
LitTwentyDigits ==
    [words |-> <<TenPow19>>, value |-> Val("Integer", <<"0">>),
     denotes |-> Val("Integer", TenPow19)]

\* The literals every value list is drawn from, and those that appear in
\* one- and two-element lists only.
CoreLiterals == {LitInt, LitFloat, LitText, LitNull, LitTrue, LitDate, LitInterval}
EdgeLiterals ==
    {LitFalse, LitTime, LitTimestamp, LitEmptyText, LitOddText, LitZeros,
     LitDotEnd, LitI64Max, LitOne, LitOverflow, LitTwentyDigits}

\* Non-keyword identifiers.
IdT == <<"t">>
IdA == <<"a">>
IdB == <<"b">>
IdC == <<"c">>
IdMixed == <<"T","b","_","1">>
IdUnder == <<"_","x">>
IdAccent == <<"e_acute","1">>
IdKwPrefix == <<"I","n","t","o","2">>
Idents == {IdT, IdMixed, IdUnder, IdAccent, IdKwPrefix}
ColumnNames == <<IdA, IdB, IdC, IdMixed>>

RECURSIVE CommaJoin(_)
CommaJoin(ws) ==
    IF Len(ws) <= 1 THEN ws ELSE <<ws[1], CM>> \o CommaJoin(Tail(ws))

RECURSIVE LitWords(_)
LitWords(lits) ==
    IF lits = <<>> THEN <<>>
    ELSE Head(lits).words
         \o (IF Len(lits) > 1 THEN <<CM>> ELSE <<>>) \o LitWords(Tail(lits))

\* The words of INSERT INTO t (cols) VALUES (lits) [;]
InsertWords(t, cols, lits, semi) ==
    <<KwINSERT, KwINTO, t, LP>> \o CommaJoin(cols) \o <<RP, KwVALUES, LP>>
    \o LitWords(lits) \o <<RP>> \o (IF semi THEN <<SC>> ELSE <<>>)

\* A statement: its words, how they are laid out and cased, and, for a
\* well-formed INSERT, its table, columns and values.
Stmt(words, layout, kwcase, valid, t, cols, vals, denotes, semi) ==
    [words |-> words, layout |-> layout, kwcase |-> kwcase, valid |-> valid,
     table |-> t, cols |-> cols, vals |-> vals, denotes |-> denotes,
     semi |-> semi]

ValidStmt(t, cols, lits, semi, layout, kwcase) ==
    Stmt(InsertWords(t, cols, lits, semi), layout, kwcase, TRUE, t, cols,
         [i \in DOMAIN lits |-> lits[i].value],
         [i \in DOMAIN lits |-> lits[i].denotes], semi)

OtherStmt(words, layout, kwcase) ==
    Stmt(words, layout, kwcase, FALSE, <<>>, <<>>, <<>>, <<>>, FALSE)

NoStmt == OtherStmt(<<>>, "spaced", "upper")

FirstColumns(n) == SubSeq(ColumnNames, 1, n)

\* Every value list over the core literals, under 1..MaxCols columns.
ValueStmts ==
    {ValidStmt(IdT, FirstColumns(n), lits, semi, "spaced", "upper") :
        n \in 1..MaxCols, lits \in SeqsUpTo(CoreLiterals, MaxVals),
        semi \in BOOLEAN}

\* Every edge literal, alone and after another value.
EdgeStmts ==
    {ValidStmt(IdT, FirstColumns(1), lits, semi, "spaced", "upper") :
        lits \in {<<l>> : l \in EdgeLiterals}
                 \cup {<<LitInt, l>> : l \in EdgeLiterals},
        semi \in BOOLEAN}

\* Every table name and column list over the identifiers.
NameStmts ==
    {ValidStmt(t, cols, <<LitInt>>, FALSE, "spaced", "upper") :
        t \in Idents, cols \in SeqsUpTo(Idents \cup {IdA}, MaxCols)}

Layouts == {"spaced", "tight", "wide", "plain"}
KwCases == {"upper", "lower", "alt1", "alt2"}

\* The statements the layouts, the casings and the mutations start from.
BaseA == <<IdT, <<IdA>>, <<LitInt>>, FALSE>>
BaseB == <<IdMixed, <<IdA, IdMixed>>, <<LitDate, LitText>>, TRUE>>
BaseC == <<IdT, <<IdA, IdB>>, <<LitNull, LitTrue, LitFalse, LitTime>>,  FALSE>>
BaseD == <<IdT, <<IdA>>, <<LitTimestamp, LitInterval, LitFloat>>, TRUE>>
Bases == {BaseA, BaseB, BaseC, BaseD}

LayoutStmts ==
    {ValidStmt(b[1], b[2], b[3], b[4], layout, kwcase) :
        b \in Bases, layout \in Layouts, kwcase \in KwCases}

\* The words a mutation puts into a statement.
MutationWords ==
    {KwINSERT, KwINTO, KwVALUES, KwDATE, KwTIME, KwTIMESTAMP, KwINTERVAL,
     KwNULL, KwTRUE, <<"x">>, <<"s","e","l","e","c","t">>, LP, RP, CM, SC,
     <<"1">>, <<"2",".","5">>, <<"'","s","'">>, <<"'","u">>, <<"#">>}

Replaced(w) == {[w EXCEPT ![i] = x] : i \in DOMAIN w, x \in MutationWords}
Inserted(w) ==
    {SubSeq(w, 1, i) \o <<x>> \o SubSeq(w, i + 1, Len(w)) :
        i \in 0..Len(w), x \in MutationWords}
Deleted(w) == {SubSeq(w, 1, i - 1) \o SubSeq(w, i + 1, Len(w)) : i \in DOMAIN w}
Truncated(w) == {SubSeq(w, 1, k) : k \in 0..Len(w)}

MutatedStmts ==
    {OtherStmt(w, "spaced", kwcase) :
        w \in UNION {Replaced(InsertWords(b[1], b[2], b[3], b[4]))
                     \cup Inserted(InsertWords(b[1], b[2], b[3], b[4]))
                     \cup Deleted(InsertWords(b[1], b[2], b[3], b[4]))
                     \cup Truncated(InsertWords(b[1], b[2], b[3], b[4])) :
                     b \in {BaseA, BaseB}},
        kwcase \in {"upper", "lower"}}

\* Statements with a character that starts no token: next to the other
\* words without a space, and inside a string literal.
UnknownWords ==
    {<<"#">>, <<"euro">>, <<".","5">>, <<"'","#","'">>, <<"x","#","y">>,
     <<"1","euro","2">>}
UnknownStmts ==
    {OtherStmt(w, "tight", "upper") :
        w \in UNION {{[InsertWords(b[1], b[2], b[3], b[4]) EXCEPT ![i] = x] :
                         i \in DOMAIN InsertWords(b[1], b[2], b[3], b[4]),
                         x \in UnknownWords}
                     \cup {SubSeq(InsertWords(b[1], b[2], b[3], b[4]), 1, i)
                           \o <<x>>
                           \o SubSeq(InsertWords(b[1], b[2], b[3], b[4]), i + 1,
                                     Len(InsertWords(b[1], b[2], b[3], b[4]))) :
                           i \in 0..Len(InsertWords(b[1], b[2], b[3], b[4])),
                           x \in UnknownWords} :
                     b \in {BaseA, BaseB}}}

\* Statements with a keyword, or a word that is none, where a name goes.
OddNames ==
    {<<"dotless_i","n","t","o">>, <<"v","a","l","u","e","long_s">>, <<"_">>,
     <<"i","n","s","e","r","t","s">>, <<"n","u","l">>, <<"T","r","u","e","_">>,
     <<"d","a","t","e","1">>}
KeywordNameStmts ==
    {OtherStmt(<<KwINSERT, KwINTO, n, LP, IdA, RP, KwVALUES, LP, <<"1">>, RP>>,
               "spaced", kwcase) : n \in Keywords \cup OddNames, kwcase \in KwCases}
    \cup
    {OtherStmt(<<KwINSERT, KwINTO, IdT, LP, IdA, CM, n, RP, KwVALUES, LP,
                 <<"1">>, CM, <<"2">>, RP>>,
               "plain", kwcase) : n \in Keywords \cup OddNames, kwcase \in KwCases}

\* The statements the specification gives as examples.
ExMismatch == ValidStmt(IdT, <<IdA, IdB>>, <<LitOne>>, TRUE, "plain", "upper")
ExLowerCase == ValidStmt(<<"T">>, <<<<"x">>>>, <<LitOne>>, FALSE, "plain", "lower")
ExNoRightParen ==
    OtherStmt(<<KwINSERT, KwINTO, IdT, LP, IdA, KwVALUES, LP, <<"1">>, RP>>,
              "plain", "upper")
ExTrailingComma ==
    OtherStmt(<<KwINSERT, KwINTO, IdT, LP, IdA, CM, RP, KwVALUES, LP, <<"1">>, RP>>,
              "plain", "upper")
ExValueTrailingComma ==
    OtherStmt(<<KwINSERT, KwINTO, IdT, LP, IdA, RP, KwVALUES, LP, <<"1">>, CM, RP>>,
              "plain", "upper")
ExEmpty == OtherStmt(<<>>, "plain", "upper")
\* INSERT INTO t () VALUES (1) and INSERT INTO t (a) VALUES ()
ExEmptyColumns ==
    OtherStmt(<<KwINSERT, KwINTO, IdT, LP, RP, KwVALUES, LP, <<"1">>, RP>>,
              "plain", "upper")
ExEmptyValues ==
    OtherStmt(<<KwINSERT, KwINTO, IdT, LP, IdA, RP, KwVALUES, LP, RP, SC>>,
              "plain", "upper")
ExBlank == OtherStmt(<<>>, "wide", "upper")
\* one statement followed by more text
ExTwoStatements ==
    OtherStmt(InsertWords(IdT, <<IdA>>, <<LitOne>>, TRUE)
              \o InsertWords(IdT, <<IdB>>, <<LitNull>>, TRUE), "plain", "upper")
ExTrailingWords ==
    OtherStmt(InsertWords(IdT, <<IdA>>, <<LitOne>>, FALSE) \o <<<<"x">>, <<"y">>>>,
              "plain", "upper")
\* A typed-literal keyword at a value position, followed by each kind of
\* thing that is no string literal, and by nothing.
TypedTails ==
    {<<>>, <<RP>>, <<<<"1">>, RP>>, <<CM, <<"'","s","'">>, RP>>,
     <<KwNULL, RP>>, <<KwDATE, <<"'","s","'">>, RP>>, <<<<"x">>, RP>>,
     <<<<"#">>, <<"'","s","'">>, RP>>, <<<<"'","s","'">>, RP>>}
TypedStmts ==
    {OtherStmt(<<KwINSERT, KwINTO, IdT, LP, IdA, RP, KwVALUES, LP>> \o head
               \o <<kw>> \o tail, "plain", kwcase) :
        head \in {<<>>, <<<<"1">>, CM>>}, kw \in TypedKeywords,
        tail \in TypedTails, kwcase \in {"upper", "alt2"}}

ExampleStmts ==
    {ExMismatch, ExLowerCase, ExNoRightParen, ExTrailingComma,
     ExValueTrailingComma, ExEmpty, ExBlank, ExTwoStatements, ExTrailingWords,
     ExEmptyColumns, ExEmptyValues}

Stmts ==
    ValueStmts \cup EdgeStmts \cup NameStmts \cup LayoutStmts \cup MutatedStmts
    \cup ExampleStmts \cup TypedStmts \cup UnknownStmts \cup KeywordNameStmts

\* A keyword in the given casing; any other word as it is.
Recase(word, kwcase) ==
    IF word \notin Keywords THEN word
    ELSE [i \in DOMAIN word |->
            CASE kwcase = "lower" -> ToAsciiLowercase(word[i])
              [] kwcase = "alt1" /\ i % 2 = 1 -> ToAsciiLowercase(word[i])
              [] kwcase = "alt2" /\ i % 2 = 0 -> ToAsciiLowercase(word[i])
              [] OTHER -> word[i]]

\* Whether two adjacent words would read as one without a space between.
Merges(c) == IsIdentifierPart(c) \/ c = "."
NeedsSpace(a, b) == a # <<>> /\ b # <<>> /\ Merges(a[Len(a)]) /\ Merges(b[1])

Between(a, b, layout) ==
    CASE layout = "spaced" -> <<" ">>
      [] layout = "tight" -> IF NeedsSpace(a, b) THEN <<" ">> ELSE <<>>
      [] layout = "plain" ->
           IF a \in {LP, CM} \/ b \in {RP, CM, SC} THEN <<>> ELSE <<" ">>
      [] OTHER -> <<"\n", "nbsp", "\t">>

RECURSIVE JoinWords(_, _)
JoinWords(ws, layout) ==
    IF ws = <<>> THEN <<>>
    ELSE IF Len(ws) = 1 THEN ws[1]
    ELSE ws[1] \o Between(ws[1], ws[2], layout) \o JoinWords(Tail(ws), layout)

\* The text of a statement, as bytes.
Render(words, layout, kwcase) ==
    LET text == JoinWords([i \in DOMAIN words |-> Recase(words[i], kwcase)], layout)
    IN Utf8(IF layout = "wide" THEN <<" ">> \o text \o <<"\r", " ">> ELSE text)

\* The texts the lexer is run on by itself: every string of at most
\* MaxLexLen characters of LexAlphabet.
LexAlphabet == {"a", "1", ".", "'", " ", "(", "#", "nbsp", "euro"}
\* Runs of digits and '.', each with the token it stands for, and what
\* follows a run in a text.
NumberSamples ==
    {[run |-> I64Max, tok |-> Tok("Integer", I64Max)],
     [run |-> <<"0">> \o I64Max, tok |-> Tok("Integer", I64Max)],
     [run |-> I64MaxPlus1, tok |-> Tok("Integer", <<"0">>)],
     [run |-> TenPow19, tok |-> Tok("Integer", <<"0">>)],
     [run |-> <<"0","0","7">>, tok |-> Tok("Integer", <<"7">>)],
     [run |-> <<"0">>, tok |-> Tok("Integer", <<"0">>)],
     [run |-> <<"3",".","1","4">>, tok |-> Tok("Float", <<"3",".","1","4">>)],
     [run |-> <<"1","0",".">>, tok |-> Tok("Float", <<"1","0",".">>)],
     [run |-> <<"0",".","5","0">>, tok |-> Tok("Float", <<"0",".","5">>)],
     [run |-> <<"1",".","2",".","3">>, tok |-> Tok("Float", <<"0",".">>)],
     [run |-> <<"1",".",".","2">>, tok |-> Tok("Float", <<"0",".">>)],
     [run |-> <<"1",".","5",".">>, tok |-> Tok("Float", <<"0",".">>)]}
NumberTails == {<<>>, <<"a">>, <<")">>, <<" ","1">>, <<"euro">>, <<"'">>}
NumberInputs == {Utf8(n.run \o t) : n \in NumberSamples, t \in NumberTails}

LexInputs ==
    {Utf8(s) : s \in SeqsUpTo(LexAlphabet, MaxLexLen) \cup {<<>>}}
    \cup NumberInputs

----------------------------------------------------------------------------
(* The state machine *)

\* The parser's fields and the locals of parse_insert, as one record.
Cur ==
    [lexer |-> lexer, current_token |-> current_token, calls |-> calls,
     pc |-> pc, table |-> table, columns |-> columns, values |-> values,
     result |-> result]

Apply(S) ==
    /\ lexer' = S.lexer
    /\ current_token' = S.current_token
    /\ calls' = S.calls
    /\ pc' = S.pc
    /\ table' = S.table
    /\ columns' = S.columns
    /\ values' = S.values
    /\ result' = S.result
    /\ UNCHANGED <<input, ret, stmt>>

\* Parser::new(input), for the text of any of the statements.
Init ==
    /\ stmt \in Stmts
    /\ input = Render(stmt.words, stmt.layout, stmt.kwcase)
    /\ LET S == ParserNew(input)
       IN /\ lexer = S.lexer
          /\ current_token = S.current_token
          /\ calls = S.calls
          /\ pc = S.pc
          /\ table = S.table
          /\ columns = S.columns
          /\ values = S.values
          /\ result = S.result
    /\ ret = NoToken

DoParse == pc = "parse" /\ Apply(Parse(input, Cur))
DoConsumeInsert == pc = "insert" /\ Apply(ConsumeInsert(input, Cur))
DoConsumeInto == pc = "into" /\ Apply(ConsumeInto(input, Cur))
DoParseTableName == pc = "table" /\ Apply(ParseTableName(input, Cur))
DoConsumeColumnsLeftParen == pc = "lparen1" /\ Apply(ConsumeColumnsLeftParen(input, Cur))
DoParseColumnName == pc = "column" /\ Apply(ParseColumnName(input, Cur))
DoColumnSeparator == pc = "column_sep" /\ Apply(ColumnSeparator(input, Cur))
DoConsumeColumnsRightParen == pc = "rparen1" /\ Apply(ConsumeColumnsRightParen(input, Cur))
DoConsumeValues == pc = "values_kw" /\ Apply(ConsumeValues(input, Cur))
DoConsumeValuesLeftParen == pc = "lparen2" /\ Apply(ConsumeValuesLeftParen(input, Cur))
DoParseValue == pc = "value" /\ Apply(ParseValue(input, Cur))
DoValueSeparator == pc = "value_sep" /\ Apply(ValueSeparator(input, Cur))
DoConsumeValuesRightParen == pc = "rparen2" /\ Apply(ConsumeValuesRightParen(input, Cur))
DoConsumeSemiColon == pc = "semicolon" /\ Apply(ConsumeSemiColon(input, Cur))

Next ==
    \/ DoParse
    \/ DoConsumeInsert
    \/ DoConsumeInto
    \/ DoParseTableName
    \/ DoConsumeColumnsLeftParen
    \/ DoParseColumnName
    \/ DoColumnSeparator
    \/ DoConsumeColumnsRightParen
    \/ DoConsumeValues
    \/ DoConsumeValuesLeftParen
    \/ DoParseValue
    \/ DoValueSeparator
    \/ DoConsumeValuesRightParen
    \/ DoConsumeSemiColon

Spec == Init /\ [][Next]_vars

\* Lexer::new(input), for any short text; the lexer is then called directly.
LexInit ==
    /\ input \in LexInputs
    /\ lexer = LexerNew(input)
    /\ ret = NoToken
    /\ calls = 0
    /\ current_token = NoToken
    /\ pc = "lexer"
    /\ table = <<>>
    /\ columns = <<>>
    /\ values = <<>>
    /\ result = NoResult
    /\ stmt = NoStmt

\* One call of Lexer::next_token.
LexerNextToken ==
    /\ pc = "lexer"
    /\ calls < MaxCalls
    /\ LET r == NextToken(input, lexer)
       IN /\ lexer' = r.lex
          /\ ret' = r.tok
    /\ calls' = calls + 1
    /\ UNCHANGED <<input, current_token, pc, table, columns, values, result, stmt>>

LexNext == LexerNextToken

LexSpec == LexInit /\ [][LexNext]_vars

----------------------------------------------------------------------------
(* Claims *)

Done == pc = "done"

\* C1: a well-formed INSERT INTO t (c1,...,cn) VALUES (v1,...,vm), with or
\* without the final ';', parses to Ok(Insert) with table t, the columns in
\* input order and the decoded values in input order.
C1_InsertParses ==
    (Done /\ stmt.valid) => result = Ok(stmt.table, stmt.cols, stmt.vals)

\* A statement with two columns, two values and the ';' has returned Ok.
C1_Witness ==
    /\ Done /\ stmt.valid /\ stmt.semi
    /\ Len(stmt.cols) = 2 /\ Len(stmt.vals) = 2
    /\ result.kind = "Ok"

\* C2: the number of columns is never compared with the number of values: a
\* well-formed INSERT with n columns, m values and n # m parses to an Insert
\* with those n columns and m values; so does INSERT INTO t (a,b) VALUES (1);
C2_NoCountCheck ==
    /\ (Done /\ stmt.valid /\ Len(stmt.cols) # Len(stmt.vals)) =>
          /\ result.kind = "Ok"
          /\ Len(result.columns) = Len(stmt.cols)
          /\ Len(result.values) = Len(stmt.vals)
    /\ (Done /\ stmt = ExMismatch) =>
          /\ result.kind = "Ok"
          /\ result.columns = <<IdA, IdB>>
          /\ result.values = <<Val("Integer", <<"1">>)>>

\* INSERT INTO t (a,b) VALUES (1); has returned an Insert.
C2_Witness ==
    /\ Done /\ stmt = ExMismatch
    /\ Len(result.columns) = 2 /\ Len(result.values) = 1

\* C3: whenever parse() returns Ok, no token remains unread: the lookahead
\* is empty and the lexer is at the end of the input.
C3_ConsumesAll ==
    (Done /\ result.kind = "Ok") =>
        (current_token = NoToken /\ lexer.ch = NoChar)

\* Whether the text starts with the word INSERT, in any casing.
StartsWithInsert == stmt.words # <<>> /\ stmt.words[1] = KwINSERT

\* C4: when the first token is not the keyword INSERT, or there is no first
\* token, parse() returns Err("Unsupported query type.") and has consumed
\* no token: the parser is as Parser::new left it.
C4_Unsupported ==
    (Done /\ ~StartsWithInsert) =>
        /\ result = Err("Unsupported query type.")
        /\ calls = 1
        /\ lexer = ParserNew(input).lexer
        /\ current_token = ParserNew(input).current_token

\* A text that starts with another keyword has been refused.
C4_Witness ==
    /\ Done /\ ~StartsWithInsert
    /\ current_token.tag = "Keyword"
    /\ result.kind = "Err"

\* What parse() returns when it goes on from the current state.
Returns == Run(input, Cur).result

\* C5: when the token after the last element of the column list or of the
\* value list is neither ',' nor ')', or there is none, parse() returns
\* Err("Expected ')'."); so does INSERT INTO t (a VALUES (1).
C5_ExpectedRightParen ==
    /\ (pc \in {"column_sep", "value_sep"}
        /\ current_token \notin {Comma, RightParen}) =>
          Returns = Err("Expected ')'.")
    /\ (Done /\ stmt = ExNoRightParen) => result = Err("Expected ')'.")

\* The input has ended after a value and parse() has returned the error.
C5_Witness ==
    /\ Done /\ result = Err("Expected ')'.")
    /\ values # <<>> /\ current_token = NoToken

\* The tokens of a text: what next_token returns, call after call, up to
\* its first None.
RECURSIVE TokensFrom(_, _)
TokensFrom(inp, L) ==
    LET r == NextToken(inp, L)
    IN IF r.tok = NoToken THEN <<>> ELSE <<r.tok>> \o TokensFrom(inp, r.lex)

\* The tokens the parser has taken from the lexer and moved past.
ConsumedTokens == SubSeq(TokensFrom(input, LexerNew(input)), 1, calls - 1)

ValuesAt(toks) == CHOOSE i \in DOMAIN toks : toks[i] = Tok("Keyword", KwVALUES)

CommasIn(toks, from, to) ==
    Cardinality({i \in DOMAIN toks : from <= i /\ i <= to /\ toks[i] = Comma})

\* C6: a ',' that the closing ')' follows is refused, in the column list
\* with Err("Expected column name."), in the value list with Err("Failed to
\* parse value."); a returned Insert has one column more than the column
\* list has commas, and one value more than the value list has commas.
C6_NoTrailingComma ==
    /\ (pc = "column" /\ columns # <<>> /\ current_token = RightParen) =>
          Returns = Err("Expected column name.")
    /\ (pc = "value" /\ values # <<>> /\ current_token = RightParen) =>
          Returns = Err("Failed to parse value.")
    /\ (Done /\ result.kind = "Ok") =>
          LET toks == ConsumedTokens
              v == ValuesAt(toks)
          IN /\ Len(result.columns) = CommasIn(toks, 1, v) + 1
             /\ Len(result.values) = CommasIn(toks, v, Len(toks)) + 1
    /\ (Done /\ stmt = ExTrailingComma) => result = Err("Expected column name.")
    /\ (Done /\ stmt = ExValueTrailingComma) => result = Err("Failed to parse value.")

\* The value list has ended in ",)" and parse() has returned the error.
C6_Witness ==
    /\ Done /\ result = Err("Failed to parse value.")
    /\ values # <<>> /\ current_token = RightParen

\* C7: a text with its keywords in any casing parses to what the text with
\* upper-case keywords parses to, and the table and column names of the
\* result are those of the text, character for character.
C7_CaseInsensitive ==
    Done =>
        /\ result = ParseText(Render(stmt.words, stmt.layout, "upper"))
        /\ (stmt.valid /\ result.kind = "Ok") =>
              (result.table = stmt.table /\ result.columns = stmt.cols)

\* A statement with mixed-case keywords, a mixed-case table name and a typed
\* literal has returned Ok.
C7_Witness ==
    /\ Done /\ stmt.kwcase = "alt1" /\ stmt.valid
    /\ result.kind = "Ok"
    /\ result.table = IdMixed
    /\ \E i \in DOMAIN result.values : result.values[i].tag = "Date"

LiteralError(kw) ==
    CASE kw = KwDATE -> "Failed to parse 'DATE' literal."
      [] kw = KwTIME -> "Failed to parse 'TIME' literal."
      [] kw = KwTIMESTAMP -> "Failed to parse 'TIMESTAMP' literal."
      [] kw = KwINTERVAL -> "Failed to parse 'INTERVAL' literal."

\* C8: at a value position, DATE, TIME, TIMESTAMP or INTERVAL without a string
\* literal next makes parse() return Err("Failed to parse '<KIND>' literal.");
\* any other token that is no integer, float, string, boolean or NULL, and no
\* token, makes it return Err("Failed to parse value.").
C8_ValueErrors ==
    pc = "value" =>
        LET t == current_token
            typed == t.tag = "Keyword" /\ t.val \in TypedKeywords
        IN /\ (typed /\ NextToken(input, lexer).tok.tag # "StringLiteral") =>
                 Returns = Err(LiteralError(t.val))
           /\ (~typed /\ t.tag \notin {"Integer", "Float", "StringLiteral",
                                       "Boolean", "Null"}) =>
                 Returns = Err("Failed to parse value.")

\* TIMESTAMP at the end of the input, after a first value, has been refused
\* by name.
C8_Witness ==
    /\ Done /\ result = Err("Failed to parse 'TIMESTAMP' literal.")
    /\ current_token = NoToken /\ values # <<>>

\* The digit runs of the statements that are no i64.
Overflows(v) == v.tag = "Integer" /\ v.val \in {I64MaxPlus1, TenPow19}

\* C9 as stated: every value of a well-formed statement is what its literal
\* denotes, an integer literal its decimal value.
C9_AsStated ==
    (Done /\ stmt.valid) => (result.kind = "Ok" /\ result.values = stmt.denotes)

\* C9: every value of a well-formed statement is what its literal denotes (a
\* string without its quotes, NULL, a boolean, a typed literal with its
\* string verbatim), an integer literal its decimal value when that is an
\* i64 and Integer(0) when it is not.
C9_Decoded ==
    (Done /\ stmt.valid) =>
        /\ result.kind = "Ok"
        /\ Len(result.values) = Len(stmt.denotes)
        /\ \A i \in DOMAIN stmt.denotes :
              result.values[i] = IF Overflows(stmt.denotes[i])
                                 THEN Val("Integer", <<"0">>)
                                 ELSE stmt.denotes[i]

\* A statement with a string holding a keyword and punctuation has returned Ok.
C9_Witness ==
    /\ Done /\ stmt.valid /\ result.kind = "Ok"
    /\ LitOddText.value \in Range(result.values)

\* C10: once the lexer's current character is the exhausted sentinel, every
\* further next_token call returns None and leaves the cursor where it is.
C10_StickyEnd ==
    [][lexer.ch = NoChar =>
          /\ ret' = NoToken
          /\ lexer'.position = lexer.position
          /\ lexer'.read_position = lexer.read_position
          /\ lexer'.ch = NoChar]_vars

\* At least three calls have been made on an exhausted input.
C10_Witness ==
    /\ pc = "lexer" /\ calls = MaxCalls
    /\ input # <<>> /\ Len(input) <= 2
    /\ lexer.ch = NoChar /\ ret = NoToken

\* The places of parse_insert that call match_token or match_keyword, with
\* the token each expects and the place it goes on to when the call returns
\* true.
MatchPlaces ==
    {"insert", "into", "lparen1", "column_sep", "rparen1", "values_kw",
     "lparen2", "value_sep", "rparen2", "semicolon"}

MatchExpects(p) ==
    CASE p = "insert" -> Tok("Keyword", KwINSERT)
      [] p = "into" -> Tok("Keyword", KwINTO)
      [] p = "values_kw" -> Tok("Keyword", KwVALUES)
      [] p \in {"lparen1", "lparen2"} -> LeftParen
      [] p \in {"column_sep", "value_sep"} -> Comma
      [] p \in {"rparen1", "rparen2"} -> RightParen
      [] p = "semicolon" -> SemiColon

MatchGoesTo(p) ==
    CASE p = "insert" -> "into"
      [] p = "into" -> "table"
      [] p = "lparen1" -> "column"
      [] p = "column_sep" -> "column"
      [] p = "rparen1" -> "values_kw"
      [] p = "values_kw" -> "lparen2"
      [] p = "lparen2" -> "value"
      [] p = "value_sep" -> "value"
      [] p = "rparen2" -> "semicolon"
      [] p = "semicolon" -> "done"

\* One step of parse_insert at a place that calls match_token or
\* match_keyword, as the claim describes it.
MatchStepAsSpecified ==
    pc \in MatchPlaces =>
        IF current_token = MatchExpects(pc)
        THEN /\ current_token' = NextToken(input, lexer).tok
             /\ lexer' = NextToken(input, lexer).lex
             /\ calls' = calls + 1
             /\ pc' = MatchGoesTo(pc)
        ELSE /\ current_token' = current_token
             /\ lexer' = lexer
             /\ calls' = calls
             /\ (pc # "semicolon" => pc' # MatchGoesTo(pc))

\* C11: match_token and match_keyword advance the lookahead exactly when they
\* return true: on false (another current token, or none) current_token and
\* the lexer cursor are unchanged; on true current_token is the one token the
\* lexer returns next.
C11_MatchAdvances == [][MatchStepAsSpecified]_vars

\* match_token(LeftParen) has returned false on a keyword and on no token,
\* and the parser stands where it stood.
C11_Witness ==
    /\ Done /\ result = Err("Expected '('.")
    /\ current_token.tag \in {"Keyword", "None"}
    /\ lexer.ch # NoChar

\* Whether the character at offset p of the text starts no token: it is no
\* white space, no punctuation, no quote, no digit and no identifier start,
\* and a '.' is counted only where it does not continue a run of digits.
IsUnrecognized(inp, p) ==
    /\ inp[p] # Cont
    /\ ~IsWhitespace(inp[p])
    /\ inp[p] \notin {"(", ")", ",", ";", "'"}
    /\ ~IsAsciiDigit(inp[p])
    /\ ~IsIdentifierStart(inp[p])
    /\ (inp[p] = "." => (p = 1 \/ ~(IsAsciiDigit(inp[p - 1]) \/ inp[p - 1] = ".")))

\* Whether offset p lies outside every string literal: an even number of
\* quotes stands before it.
OutsideStrings(inp, p) ==
    Cardinality({q \in 1..(p - 1) : inp[q] = "'"}) % 2 = 0

UnrecognizedAt(inp) ==
    {p \in DOMAIN inp : IsUnrecognized(inp, p) /\ OutsideStrings(inp, p)}

\* parse() has returned what it returns for the text cut before each
\* unrecognized character.
SameAsTruncated ==
    Done => \A p \in UnrecognizedAt(input) :
                result = ParseText(SubSeq(input, 1, p - 1))

\* With no current token, a step of parse() makes no call of the lexer.
NoCallAfterNone ==
    current_token = NoToken => (calls' = calls /\ lexer' = lexer)

\* C12: an unrecognized character is the end of the input to the parser: once
\* current_token is None, parse() asks the lexer for no further token, and for
\* every input with an unrecognized character outside a string literal
\* parse() returns what it returns for the input cut just before that
\* character.
C12_UnknownIsEnd == [][NoCallAfterNone]_vars /\ []SameAsTruncated

\* parse() has returned with the lexer stopped behind an unrecognized
\* character and text still unread.
C12_Witness ==
    /\ Done /\ UnrecognizedAt(input) # {}
    /\ current_token = NoToken /\ lexer.ch # NoChar
    /\ \E p \in UnrecognizedAt(input) : lexer.position >= p
    /\ values # <<>> /\ result = Err("Expected ')'.")

\* The two offsets of the lexer are in order and inside the text.
CursorInBounds ==
    /\ 0 <= lexer.position
    /\ lexer.position <= lexer.read_position
    /\ lexer.read_position <= Len(input)

\* C13: the lexer never rewinds: over Lexer::new and every sequence of
\* next_token calls read_position never decreases, and in every reachable
\* state position <= read_position <= length of the input.
C13_NoRewind ==
    [][lexer'.read_position >= lexer.read_position]_vars /\ []CursorInBounds

\* After a call of next_token the lexer stands on a character of three bytes
\* in the middle of the text.
C13_Witness ==
    /\ pc = "lexer" /\ calls >= 1
    /\ lexer.ch = "euro" /\ lexer.position > 0
    /\ lexer.read_position = lexer.position + 3
    /\ lexer.read_position < Len(input)

\* The lexer after n calls of next_token.
RECURSIVE LexerAfter(_, _, _)
LexerAfter(inp, L, n) ==
    IF n = 0 THEN L ELSE LexerAfter(inp, NextToken(inp, L).lex, n - 1)

\* The tokens a value of the value list was made from.
ValueTokens(v) ==
    CASE v.tag = "Integer" -> <<Tok("Integer", v.val)>>
      [] v.tag = "Float" -> <<Tok("Float", v.val)>>
      [] v.tag = "Text" -> <<Tok("StringLiteral", v.val)>>
      [] v.tag = "Null" -> <<Tok("Null", <<>>)>>
      [] v.tag = "Boolean" -> <<Tok("Boolean", v.val)>>
      [] v.tag = "Date" -> <<Tok("Keyword", KwDATE), Tok("StringLiteral", v.val)>>
      [] v.tag = "Time" -> <<Tok("Keyword", KwTIME), Tok("StringLiteral", v.val)>>
      [] v.tag = "Timestamp" ->
           <<Tok("Keyword", KwTIMESTAMP), Tok("StringLiteral", v.val)>>
      [] v.tag = "Interval" ->
           <<Tok("Keyword", KwINTERVAL), Tok("StringLiteral", v.val)>>

\* The tokens of a list of columns, and of a list of values, with the commas.
RECURSIVE ColumnTokens(_)
ColumnTokens(cs) ==
    IF cs = <<>> THEN <<>>
    ELSE IF Len(cs) = 1 THEN <<Tok("Identifier", cs[1])>>
    ELSE <<Tok("Identifier", cs[1]), Comma>> \o ColumnTokens(Tail(cs))

RECURSIVE ValueListTokens(_)
ValueListTokens(vs) ==
    IF vs = <<>> THEN <<>>
    ELSE IF Len(vs) = 1 THEN ValueTokens(vs[1])
    ELSE ValueTokens(vs[1]) \o <<Comma>> \o ValueListTokens(Tail(vs))

AfterList(toks) == IF toks = <<>> THEN <<>> ELSE toks \o <<Comma>>

\* The tokens that stand for what parse_insert holds at the place p: the
\* keywords and punctuation it has passed and the names and values it has
\* put into table, columns and values.
TokensOfParsed(p) ==
    LET kw1 == <<Tok("Keyword", KwINSERT)>>
        kw2 == kw1 \o <<Tok("Keyword", KwINTO)>>
        tb == kw2 \o <<Tok("Identifier", table)>>
        cl == tb \o <<LeftParen>> \o ColumnTokens(columns)
        cr == cl \o <<RightParen>>
        vk == cr \o <<Tok("Keyword", KwVALUES)>>
        vl == vk \o <<LeftParen>> \o ValueListTokens(values)
        vr == vl \o <<RightParen>>
    IN CASE p \in {"parse", "insert"} -> <<>>
         [] p = "into" -> kw1
         [] p = "table" -> kw2
         [] p = "lparen1" -> tb
         [] p = "column" -> tb \o <<LeftParen>> \o AfterList(ColumnTokens(columns))
         [] p \in {"column_sep", "rparen1"} -> cl
         [] p = "values_kw" -> cr
         [] p = "lparen2" -> vk
         [] p = "value" -> vk \o <<LeftParen>> \o AfterList(ValueListTokens(values))
         [] p \in {"value_sep", "rparen2"} -> vl
         [] p \in {"semicolon", "done"} -> vr

\* What the first n calls of next_token return, each with the lexer it
\* leaves.
RECURSIVE FirstCalls(_, _, _)
FirstCalls(inp, L, n) ==
    IF n = 0 THEN <<>>
    ELSE LET r == NextToken(inp, L)
         IN <<r>> \o FirstCalls(inp, r.lex, n - 1)

\* C14: parse() keeps one token of lookahead: at every step the lexer has
\* been asked for exactly one token more than parse() has consumed,
\* current_token is the token of the input that follows the consumed ones
\* (or None behind the last), and the consumed tokens are, in input order with
\* none skipped and none taken twice, the tokens of what table, columns and
\* values hold.
C14_OneTokenLookahead ==
    LET made == FirstCalls(input, LexerNew(input), calls)
        consumed == [i \in 1..(calls - 1) |-> made[i].tok]
    IN /\ calls >= 1
       /\ \A i \in 1..(calls - 1) : made[i].tok # NoToken
       /\ current_token = made[calls].tok
       /\ lexer = made[calls].lex
       /\ result.kind = "None" => consumed = TokensOfParsed(pc)
       /\ result.kind = "Ok" =>
             \/ consumed = TokensOfParsed(pc)
             \/ consumed = TokensOfParsed(pc) \o <<SemiColon>>

\* In the value loop, behind a ',', parse_insert holds one value made from two
\* tokens and a second column, with a literal in current_token.
C14_Witness ==
    /\ pc = "value" /\ Len(columns) = 2
    /\ Len(values) = 1 /\ values[1].tag = "Date"
    /\ current_token.tag = "StringLiteral"
    /\ calls = 14

\* C15: every Insert that parse() returns has at least one column and at
\* least one value: an empty column list '()' gives Err("Expected column
\* name.") and an empty value list '()' gives Err("Failed to parse value.").
C15_NonEmptyLists ==
    /\ result.kind = "Ok" => (Len(result.columns) >= 1 /\ Len(result.values) >= 1)
    /\ (pc = "column" /\ columns = <<>> /\ current_token = RightParen)
          => Returns = Err("Expected column name.")
    /\ (pc = "value" /\ values = <<>> /\ current_token = RightParen)
          => Returns = Err("Failed to parse value.")
    /\ (Done /\ stmt = ExEmptyColumns) => result = Err("Expected column name.")
    /\ (Done /\ stmt = ExEmptyValues) => result = Err("Failed to parse value.")

\* INSERT INTO t (a) VALUES (); has been refused at the ')' of the value list.
C15_Witness ==
    /\ Done /\ stmt = ExEmptyValues
    /\ columns # <<>> /\ values = <<>> /\ current_token = RightParen
    /\ result = Err("Failed to parse value.")

\* The longest run of ASCII digits and '.' a text begins with.
NumberRun(inp) ==
    LET k == CHOOSE k \in 0..Len(inp) :
                 /\ \A i \in 1..k : inp[i] \in Range(Digits) \cup {"."}
                 /\ k < Len(inp) => inp[k + 1] \notin Range(Digits) \cup {"."}
    IN SubSeq(inp, 1, k)

\* The token a run stands for: the one written next to it in NumberSamples;
\* for the other runs, which hold no '0' and fewer than nineteen digits, the
\* run itself as an Integer without '.', as a Float with one '.', and
\* Float(0.0) with more.
NumberToken(run) ==
    IF \E n \in NumberSamples : n.run = run
    THEN (CHOOSE n \in NumberSamples : n.run = run).tok
    ELSE LET dots == Cardinality({i \in DOMAIN run : run[i] = "."})
         IN CASE dots = 0 -> Tok("Integer", run)
              [] dots = 1 -> Tok("Float", run)
              [] OTHER -> Tok("Float", <<"0",".">>)

\* C16: a numeric literal is the longest run of ASCII digits and '.' that
\* starts at a digit, and is one token: an Integer when it holds no '.',
\* Integer(0) when that run is no signed 64-bit integer, a Float when it holds
\* a '.', Float(0.0) when that run is no float (two dots); no error is
\* raised and the lexer stands behind the whole run.
C16_NumberRuns ==
    (pc = "lexer" /\ calls = 1 /\ input # <<>> /\ IsAsciiDigit(input[1])) =>
        LET run == NumberRun(input)
        IN /\ ret = NumberToken(run)
           /\ lexer.position = Len(run)
           /\ lexer.ch = IF Len(run) < Len(input) THEN input[Len(run) + 1]
                         ELSE NoChar

\* 1.2.3a has been read as one token, Float(0.0), up to the a.
C16_Witness ==
    /\ pc = "lexer" /\ calls = 1
    /\ input = <<"1",".","2",".","3","a">>
    /\ ret = Tok("Float", <<"0",".">>)
    /\ lexer.ch = "a" /\ lexer.position = 5

\* The offsets of the quotes of a text behind its first byte.
LaterQuotes(inp) == {q \in 2..Len(inp) : inp[q] = "'"}

Unterminated(inp) == inp # <<>> /\ inp[1] = "'" /\ LaterQuotes(inp) = {}

\* The offset of the quote that closes the literal a text begins with, or
\* that of the end of the text.
ClosingQuote(inp) ==
    IF LaterQuotes(inp) = {} THEN Len(inp) + 1
    ELSE CHOOSE q \in LaterQuotes(inp) : \A r \in LaterQuotes(inp) : q <= r

\* C17: a string literal token holds, as they stand, the characters between
\* the opening quote and the next quote; with no closing quote it holds every
\* character up to the end of the input, no error is raised, the lexer is
\* left exhausted and the following call returns None.
C17_StringLiterals ==
    /\ (pc = "lexer" /\ calls = 1 /\ input # <<>> /\ input[1] = "'") =>
          /\ ret = Tok("StringLiteral",
                       Chars(SubSeq(input, 2, ClosingQuote(input) - 1)))
          /\ lexer.position = IF Unterminated(input) THEN Len(input)
                              ELSE ClosingQuote(input)
          /\ Unterminated(input) =>
                /\ lexer.ch = NoChar
                /\ lexer.position = Len(input)
                /\ lexer.read_position = Len(input)
    /\ (pc = "lexer" /\ calls = 2 /\ Unterminated(input)) =>
          (ret = NoToken /\ lexer.ch = NoChar)

\* A literal with no closing quote has been returned with its euro sign and
\* its space, and the lexer is exhausted.
C17_Witness ==
    /\ pc = "lexer" /\ calls = 1
    /\ input = <<"'", "euro", Cont, Cont, " ">>
    /\ ret = Tok("StringLiteral", <<"euro", " ">>)
    /\ lexer.ch = NoChar

\* The lexer before the n-th of the next_token calls a step of parse() makes
\* (its first call is call 0), and behind it.
BeforeCall(n) == LexerAfter(input, lexer, n)
AfterCall(n) == LexerAfter(input, lexer, n + 1)

\* Every call of next_token that a step makes with a current character moves
\* read_position forward.
ReadPositionAdvances ==
    \A n \in 0..(calls' - calls - 1) :
        BeforeCall(n).ch # NoChar =>
            AfterCall(n).read_position > BeforeCall(n).read_position

C18_AsStated == [][ReadPositionAdvances]_vars

\* Every call that a step makes with a current character moves position
\* forward, every call made with bytes still unread moves read_position
\* forward, and no call moves either back.
CallsAdvance ==
    /\ lexer' = LexerAfter(input, lexer, calls' - calls)
    /\ \A n \in 0..(calls' - calls - 1) :
          /\ BeforeCall(n).ch # NoChar =>
                AfterCall(n).position > BeforeCall(n).position
          /\ BeforeCall(n).read_position < Len(input) =>
                AfterCall(n).read_position > BeforeCall(n).read_position
          /\ AfterCall(n).position >= BeforeCall(n).position
          /\ AfterCall(n).read_position >= BeforeCall(n).read_position

\* What bounds the work of parse(): it has made at most one call more than
\* the text has bytes, and holds no more columns and values than that.
BoundedWork ==
    /\ calls <= Len(input) + 1
    /\ Len(columns) <= Len(input) /\ Len(values) <= Len(input)

\* The places of parse() in the order of its code.
Places ==
    <<"parse", "insert", "into", "table", "lparen1", "column", "column_sep",
      "rparen1", "values_kw", "lparen2", "value", "value_sep", "rparen2",
      "semicolon", "done">>

\* What is left to do: the calls of next_token parse() can still make, and
\* within one call the places still ahead.
Remaining ==
    (Len(input) + 1 - calls) * Len(Places) + (Len(Places) - IndexOf(Places, pc))

\* parse() has not returned and stands at a place of its code, each of which
\* has a statement to execute, or it has returned Ok or Err.
RunsOrReturned ==
    IF Done THEN result.kind \in {"Ok", "Err"}
    ELSE result.kind = "None" /\ pc \in Range(Places)

\* C18: parse() terminates on every finite input: every next_token call made
\* while the lexer has a current character strictly increases position, and
\* strictly increases read_position while bytes are unread (also when it
\* skips an unrecognized character and returns None), so the column and value
\* loops run a bounded number of times: every step of parse() lowers a
\* bound that is never negative, and parse() stops only with Ok or Err.
C18_Terminates ==
    /\ [][CallsAdvance /\ Remaining' < Remaining]_vars
    /\ [](BoundedWork /\ Remaining >= 0 /\ RunsOrReturned)

\* parse() has returned after a call that skipped an unrecognized last
\* character: read_position stood at the end of the text before the call.
C18_Witness ==
    /\ Done /\ result.kind = "Ok" /\ current_token = NoToken
    /\ input[Len(input)] = "#"
    /\ lexer.ch = NoChar
    /\ lexer.position = Len(input) /\ lexer.read_position = Len(input)

\* The word of the statement that current_token was read from, as it stands
\* in the text.
CurrentWord == Recase(stmt.words[calls], stmt.kwcase)

\* A word of the keyword set in some letter case, and a word of letters,
\* digits and '_' that starts like a name.
IsKeywordWord(w) == \E k \in Keywords : EqIgnoreAsciiCase(w, k)
IsNameWord(w) ==
    /\ w # <<>> /\ IsIdentifierStart(w[1])
    /\ \A i \in DOMAIN w : IsIdentifierPart(w[i])

\* C19: a word of the keyword set, in any letter case, is never lexed as an
\* Identifier and so is no name: where the table name goes parse() returns
\* Err("Expected table name."), where a column name goes Err("Expected
\* column name."); every other word of letters, digits and '_' is lexed as an
\* Identifier.
C19_KeywordsNotNames ==
    (pc \in {"table", "column"} /\ calls <= Len(stmt.words)) =>
        /\ IsKeywordWord(CurrentWord) =>
              /\ current_token.tag # "Identifier"
              /\ Returns = Err(IF pc = "table" THEN "Expected table name."
                               ELSE "Expected column name.")
        /\ (IsNameWord(CurrentWord) /\ ~IsKeywordWord(CurrentWord)) =>
              current_token = Tok("Identifier", CurrentWord)

====
